---- MODULE Spec2Model ----
(***************************************************************************)
(* Per-client token-bucket rate limiter of portfolio-backend               *)
(* (internal/middleware rate limiter: RateLimiter, ClientLimiter, the      *)
(* cleanup goroutine and the RateLimit gin middleware).                    *)
(*                                                                         *)
(* Time is counted in clock ticks (the resolution of time.Duration);       *)
(* TicksPerSecond ticks make one second.  Token amounts are counted in     *)
(* units of 1/TicksPerSecond token, so that the float64 products           *)
(* seconds * limit of golang.org/x/time/rate are exact integers here:      *)
(* one whole token is TicksPerSecond units and a limiter of limit R gains  *)
(* R units per tick.                                                       *)
(***************************************************************************)
EXTENDS Integers, FiniteSets, Sequences, TLC

\* ---- bounds of the model ----
TicksPerSecond == 3
MaxRate == 2
MaxBurst == 2
MaxInterval == 2
MaxTime == 5
MaxCalls == 3
NumClients == 2
NumReqs == 2
LiveTicks == 3
\* stand-in for math.MaxInt64 nanoseconds (saturated time.Sub, rate.InfDuration)
InfDuration == 1000
\* the rates written in a configuration are multiples of 1/FracDenom
FracDenom == 2

Clients == 1..NumClients
Reqs == 1..NumReqs
ObjIds == 1..(NumClients + NumReqs)
Janitor == 0
Free == -1
ZeroTime == -1
NoObj == 0

\* what a request holds before allow has returned, and the bool allow returns
NoResult == <<>>
Returned(ok) == <<ok>>

VARIABLES
  config,    \* RateLimiter.config: RequestsPerSecond, BurstSize, CleanupInterval (ticks)
  now,       \* the wall clock read by time.Now()
  clients,   \* RateLimiter.clients: client id -> *ClientLimiter (NoObj: no key)
  objs,      \* the ClientLimiter objects on the heap
  mu,        \* RateLimiter.mu: Free, or the goroutine holding it
  pc,        \* position of each request goroutine inside the middleware
  cid,       \* clientID of the request
  lim,       \* local variable limiter of allow
  exists,    \* local variable exists of allow
  res,       \* value returned by allow to the request (NoResult before)
  rtime,     \* time at which the request's limiter.Allow() ran
  waited,    \* the request found rl.mu held while it wanted it
  http,      \* what the middleware chain did for the request
  jpc,       \* position of the cleanup goroutine
  tick,      \* a tick is buffered in ticker.C
  ncalls,    \* number of requests served so far
  hist,      \* per client: the calls served since its entry was last absent
  swept,     \* the keys the sweep in progress has removed
  req,       \* the HTTP request the server is given: its headers and its peer
  server,    \* the http.Server of main: "running", "stopping" or "exited"
  file,      \* the rate_limit section of the configuration viper reads
  sweepLog,  \* where the sweeps are watched: the time of the last sweep and,
             \* until it unlocks, the time of the sweep before it and the
             \* lastSeen of the entries it met
  focus,     \* the registry the variables above describe: 1, or 2 when a second
             \* one was constructed
  other,     \* the second registry constructed, if any, while it is at rest
  tally      \* where the calls are counted: per client the times of its
             \* admissions, and the calls and admissions of its present entry

vars == <<config, now, clients, objs, mu, pc, cid, lim, exists, res, rtime,
          waited, http, jpc, tick, ncalls, hist, swept, req, server, file,
          sweepLog, focus, other, tally>>

\* what the steps of the registry and of its requests leave alone
outside == <<req, server, file, focus>>

NoSeen == [c \in Clients |-> ZeroTime]

\* no sweep was made yet, or the sweeps are not watched
NoSweep == [on |-> FALSE, prev |-> ZeroTime, at |-> ZeroTime, seen |-> NoSeen]

\* the log after a sweep made at time t that met the entries of seen
Logged(l, t, seen) ==
  IF l.on THEN [on |-> TRUE, prev |-> l.at, at |-> t, seen |-> seen] ELSE l

\* no call was counted yet, or the calls are not counted
NoTally == [on |-> FALSE, adm |-> [c \in Clients |-> <<>>],
            calls |-> [c \in Clients |-> 0], admitted |-> [c \in Clients |-> 0]]

\* the tally after a call for client c answered ok at time t
Tallied(tl, c, t, ok) ==
  IF ~tl.on THEN tl
  ELSE [tl EXCEPT !.adm[c] = IF ok THEN Append(@, t) ELSE @,
                  !.calls[c] = @ + 1,
                  !.admitted[c] = IF ok THEN @ + 1 ELSE @]

\* the tally after a sweep removed the entries of gone: the counts of an
\* entry end with it, the times of the admissions stay
Forgot(tl, gone) ==
  [tl EXCEPT !.calls = [c \in Clients |-> IF c \in gone THEN 0 ELSE @[c]],
             !.admitted = [c \in Clients |-> IF c \in gone THEN 0 ELSE @[c]]]

Min(a, b) == IF a < b THEN a ELSE b
Max(a, b) == IF a < b THEN b ELSE a

\* ---- golang.org/x/time/rate, as used by allow ----

\* rate.NewLimiter with its two arguments exchanged
NewLimiterSwapped(r, b) == [limit |-> b, burst |-> r, tokens |-> 0, last |-> ZeroTime]

\* rate.NewLimiter(r, b): an empty bucket whose last update is the zero time
NewLimiter(r, b) == [limit |-> r, burst |-> b, tokens |-> 0, last |-> ZeroTime]

\* time.Time.Sub: saturates when the difference does not fit a Duration
Sub(t, u) == IF u = ZeroTime THEN InfDuration ELSE t - u

\* Limit.tokensFromDuration
tokensFromDuration(limit, d) == IF limit <= 0 THEN 0 ELSE d * limit

\* a conversion to time.Duration that rounds up
durationFromTokensCeil(limit, tokens) ==
  IF limit <= 0 THEN InfDuration
  ELSE Min(InfDuration, (tokens + limit - 1) \div limit)

\* Limit.durationFromTokens: the conversion to time.Duration truncates
durationFromTokens(limit, tokens) ==
  IF limit <= 0 THEN InfDuration ELSE Min(InfDuration, tokens \div limit)

\* advance without the cap at burst
advanceNoCap(l, t) ==
  LET last == IF t < l.last THEN t ELSE l.last
  IN  l.tokens + tokensFromDuration(l.limit, Sub(t, last))

\* Limiter.advance: the tokens available at time t
advance(l, t) ==
  LET last == IF t < l.last THEN t ELSE l.last
      elapsed == Sub(t, last)
      delta == tokensFromDuration(l.limit, elapsed)
      tokens == l.tokens + delta
      burst == l.burst * TicksPerSecond
  IN  IF tokens > burst THEN burst ELSE tokens

\* a reserveN that stores the refilled tokens when it denies
reserveNRefilling(l, t) ==
  LET tokens == advance(l, t) - TicksPerSecond
      waitDuration == IF tokens < 0
                      THEN durationFromTokens(l.limit, -tokens) ELSE 0
      ok == 1 <= l.burst /\ waitDuration <= 0
  IN  [ok |-> ok,
       lim |-> IF ok THEN [l EXCEPT !.last = t, !.tokens = tokens]
               ELSE [l EXCEPT !.tokens = advance(l, t)]]

\* a reserveN that writes the limiter back whatever the decision
reserveNCharging(l, t) ==
  LET tokens == advance(l, t) - TicksPerSecond
      waitDuration == IF tokens < 0
                      THEN durationFromTokens(l.limit, -tokens) ELSE 0
  IN  [ok |-> 1 <= l.burst /\ waitDuration <= 0,
       lim |-> [l EXCEPT !.last = t, !.tokens = tokens]]

\* a reserveN without the case of a limit of zero
reserveNNoZero(l, t) ==
  LET tokens == advance(l, t) - TicksPerSecond
      waitDuration == IF tokens < 0
                      THEN durationFromTokens(l.limit, -tokens) ELSE 0
      ok == 1 <= l.burst /\ waitDuration <= 0
  IN  IF ok THEN [ok |-> TRUE, lim |-> [l EXCEPT !.last = t, !.tokens = tokens]]
      ELSE [ok |-> FALSE, lim |-> l]

\* a reserveN that wants more than the one token it takes
reserveNStrict(l, t) ==
  LET tokens == advance(l, t) - TicksPerSecond
      ok == 1 <= l.burst /\ tokens > 0
  IN  IF ok THEN [ok |-> TRUE, lim |-> [l EXCEPT !.last = t, !.tokens = tokens]]
      ELSE [ok |-> FALSE, lim |-> l]

\* Limiter.reserveN(t, 1, 0) as called by Limiter.Allow: the decision and the
\* limiter afterwards (the limiter is written only when the event is allowed)
reserveN(l, t) ==
  IF l.limit = 0
  THEN IF l.burst >= 1
       THEN [ok |-> TRUE, lim |-> [l EXCEPT !.burst = l.burst - 1]]
       ELSE [ok |-> FALSE, lim |-> l]
  ELSE LET tokens == advance(l, t) - TicksPerSecond
           waitDuration == IF tokens < 0
                           THEN durationFromTokens(l.limit, -tokens) ELSE 0
           ok == 1 <= l.burst /\ waitDuration <= 0
       IN  IF ok
           THEN [ok |-> TRUE,
                 lim |-> [l EXCEPT !.last = t,
                                   !.tokens = tokens]]
           ELSE [ok |-> FALSE, lim |-> l]

\* ---- RateLimiter ----

\* &ClientLimiter{limiter: rate.NewLimiter(...), lastSeen: time.Now()}
NewClientLimiter(t) ==
  [limiter |-> NewLimiter(config.RequestsPerSecond, config.BurstSize),
   lastSeen |-> t]

NoLimiter == [limiter |-> NewLimiter(0, 0), lastSeen |-> ZeroTime]

\* an allow without its else branch
TouchNever(o, t) == o

\* limiter.lastSeen = time.Now() for the entry found in the map
Touch(o, t) == [o EXCEPT !.lastSeen = t]

\* The history of a client since its entry was last absent: reborn tells
\* whether a sweep removed an earlier entry and how that entry was left
\* ("drained": less than one token stored, else "full"); gcalls and gadm count
\* the calls and the admissions of the current run of calls made at one
\* instant gtime; fresh holds while that run is the first one; ptime and ptok
\* are the time and the token count at which the run before it ended; atime
\* is the time of the last admission and atok what a bucket that is filled at
\* creation, refilled at RequestsPerSecond up to BurstSize and charged one
\* token by each admission, held right after it.
NoHist == [reborn |-> "no", fresh |-> TRUE, gtime |-> ZeroTime, gcalls |-> 0,
           gadm |-> 0, ptime |-> ZeroTime, ptok |-> 0, atime |-> ZeroTime,
           atok |-> 0]

\* gin's Context of a request before any handler ran: status, error and
\* message are the response written (status 0: nothing written yet), aborted
\* is c.IsAborted(), handled tells that the route's handlers ran, logged
\* counts the log lines of the limiter; method, path and peer are those of
\* c.Request, ran lists the handlers entered, in order, headers is
\* c.Writer.Header(), sent the headers of the response written, and access
\* the level and the status of the line RequestLogger wrote (none: <<>>)
NoHttp == [status |-> 0, error |-> "", message |-> "", aborted |-> FALSE,
           handled |-> FALSE, logged |-> 0, method |-> "", path |-> "",
           peer |-> 0, ran |-> <<>>, headers |-> {}, sent |-> {},
           access |-> <<>>]

\* a mutex that excludes nobody
MuNoExclusion == TRUE

\* rl.mu.Lock() returns only when nobody holds the mutex
MuAvailable == mu = Free

\* an Unlock that leaves the mutex with its holder
ReleasedNever(holder) == holder

\* the mutex after rl.mu.Unlock()
Released(holder) == Free

\* a lookup that ignores the client identifier
LookupShared(c) == clients[1]

\* rl.clients[clientID]
Lookup(c) == clients[c]

\* client c has an entry in rl.clients; the entry
Present(c) == clients[c] # NoObj
Entry(c) == objs[clients[c]]

\* a reclaim that also takes from the buckets of the objects it keeps
CollectCharging(o, cl, lm) ==
  [i \in ObjIds |->
     IF (\E c \in Clients : cl[c] = i) \/ (\E r \in Reqs : lm[r] = i)
     THEN [o[i] EXCEPT !.limiter.tokens = @ - 1] ELSE NoLimiter]

\* an object nobody points to any more is reclaimed
Collect(o, cl, lm) ==
  [i \in ObjIds |->
     IF (\E c \in Clients : cl[c] = i) \/ (\E r \in Reqs : lm[r] = i)
     THEN o[i] ELSE NoLimiter]

\* the address of a new ClientLimiter for client c made by request r: one no
\* live pointer holds
NewObj(r, c) == IF \E q \in Reqs : lim[q] = c THEN NumClients + r ELSE c

\* a cutoff of three times the CleanupInterval
cutoffThrice(t) == t - config.CleanupInterval * 3

\* a cutoff of one CleanupInterval
cutoffOnce(t) == t - config.CleanupInterval

\* cutoff := time.Now().Add(-rl.config.CleanupInterval * 2)
cutoff(t) == t - config.CleanupInterval * 2

\* a comparison that also takes the entry seen exactly at the cutoff
ExpiredInclusive(o, cut) == o.lastSeen <= cut

\* a comparison no entry passes
ExpiredNever(o, cut) == FALSE

\* limiter.lastSeen.Before(cutoff)
Expired(o, cut) == o.lastSeen < cut

\* the slot of ticker.C of registry rl once the clock reads t: time.NewTicker
\* of rl.config.CleanupInterval sends every interval and drops what finds the
\* slot full
Ticked(slot, rl, t) ==
  slot \/ (rl.built /\ t % rl.config.CleanupInterval = 0)

\* the registry NewRateLimiter(config) returns when the clock reads t: empty,
\* no request yet, its cleanup goroutine at j
Constructed(cfg, t, j) ==
  /\ config = cfg
  /\ now = t
  /\ clients = [c \in Clients |-> NoObj]
  /\ objs = [i \in ObjIds |-> NoLimiter]
  /\ mu = Free
  /\ pc = [r \in Reqs |-> "idle"]
  /\ cid = [r \in Reqs |-> 1]
  /\ lim = [r \in Reqs |-> NoObj]
  /\ exists = [r \in Reqs |-> FALSE]
  /\ res = [r \in Reqs |-> NoResult]
  /\ rtime = [r \in Reqs |-> ZeroTime]
  /\ waited = [r \in Reqs |-> FALSE]
  /\ http = [r \in Reqs |-> NoHttp]
  /\ jpc = j
  /\ tick = FALSE
  /\ ncalls = 0
  /\ hist = [c \in Clients |-> NoHist]
  /\ swept = {}

\* NewRateLimiter(config) called when the clock reads t, the cleanup
\* goroutine it started having made its ticker and waiting for it
NewRateLimiter(cfg, t) == Constructed(cfg, t, "wait")

Policies == [RequestsPerSecond : 1..MaxRate, BurstSize : 1..MaxBurst,
             CleanupInterval : 1..MaxInterval]

\* ---- a second registry ----

Regs == {1, 2}

\* no second registry was constructed
NoRegistry ==
  [built |-> FALSE,
   config |-> [RequestsPerSecond |-> 0, BurstSize |-> 0, CleanupInterval |-> 0],
   clients |-> [c \in Clients |-> NoObj],
   objs |-> [i \in ObjIds |-> NoLimiter],
   hist |-> [c \in Clients |-> NoHist],
   tick |-> FALSE]

\* a registry at rest (no request inside allow, its cleanup goroutine waiting
\* for a tick): what NewRateLimiter(cfg) returns, to begin with
Registry(cfg, cl, o, h, tk) ==
  [built |-> TRUE, config |-> cfg, clients |-> cl, objs |-> o, hist |-> h,
   tick |-> tk]

\* one map for all the registries of the process
makeShared(rl) == 1

\* NewRateLimiter: clients: make(map[string]*ClientLimiter), a map of its own
\* for each registry constructed
make(rl) == rl

\* ---- the configuration ----

Second == TicksPerSecond
Minute == 60 * Second
Hour == 60 * Minute

\* a key the configuration does not set.  A value that is set is a sequence:
\* a number, written in units of 1/FracDenom, or a duration, written as a
\* number and its unit.
NoValue == <<>>

NoFile == [requests_per_second |-> NoValue, burst_size |-> NoValue,
           cleanup_interval |-> NoValue]

\* DefaultRateLimitConfig()
DefaultRateLimitConfig ==
  [RequestsPerSecond |-> 10, BurstSize |-> 20, CleanupInterval |-> 5 * Minute]

\* StrictRateLimitConfig()
StrictRateLimitConfig ==
  [RequestsPerSecond |-> 5, BurstSize |-> 10, CleanupInterval |-> 5 * Minute]

\* setDefaults: the values viper falls back to
setDefaults ==
  [requests_per_second |-> <<10 * FracDenom>>, burst_size |-> <<20 * FracDenom>>,
   cleanup_interval |-> <<5, "m">>]

\* viper's lookup of the keys: the value set, else the default
Get(f) ==
  [k \in DOMAIN f |-> IF f[k] = NoValue THEN setDefaults[k] ELSE f[k]]

\* time.ParseDuration of a number followed by a unit
ParseDuration(d) ==
  d[1] * (CASE d[2] = "ns" -> 1
            [] d[2] = "s" -> Second
            [] d[2] = "m" -> Minute
            [] d[2] = "h" -> Hour)

\* viper.Unmarshal into an int field: the fraction of a number is dropped
decodeInt(x) == x[1] \div FracDenom

\* config.Load: the RateLimit section of the Config it returns
Load(f) ==
  [RequestsPerSecond |-> decodeInt(Get(f).requests_per_second),
   BurstSize |-> decodeInt(Get(f).burst_size),
   CleanupInterval |-> ParseDuration(Get(f).cleanup_interval)]

\* a wiring that exchanges the rate and the burst
setupRouterSwapped(cfg) ==
  [RequestsPerSecond |-> cfg.BurstSize,
   BurstSize |-> cfg.RequestsPerSecond,
   CleanupInterval |-> cfg.CleanupInterval]

\* setupRouter: the middleware.RateLimitConfig built from cfg.RateLimit
setupRouter(cfg) ==
  [RequestsPerSecond |-> cfg.RequestsPerSecond,
   BurstSize |-> cfg.BurstSize,
   CleanupInterval |-> cfg.CleanupInterval]

\* the configuration that sets every key to the values of policy cfg
Written(cfg) ==
  [requests_per_second |-> <<cfg.RequestsPerSecond * FracDenom>>,
   burst_size |-> <<cfg.BurstSize * FracDenom>>,
   cleanup_interval |-> <<cfg.CleanupInterval, "ns">>]

\* the configurations tried: each key unset or set, the rate to any multiple
\* of 1/FracDenom up to MaxRate
ConfigFiles ==
  [requests_per_second : {NoValue} \cup {<<x>> : x \in 1..(MaxRate * FracDenom)},
   burst_size : {NoValue, <<MaxBurst * FracDenom>>},
   cleanup_interval : {NoValue, <<1, "s">>}]

\* ---- the request and its client identifier ----

\* c.GetHeader of a header the request does not carry
NoHeader == 0

\* the requests a peer can send: the two forwarding headers (absent, or
\* naming an address), the address of the peer of the connection, and whether
\* that peer is a proxy of the deployment
Requests == [xRealIP : {NoHeader} \cup Clients,
             xForwardedFor : {NoHeader} \cup Clients,
             peer : Clients, trusted : BOOLEAN]

\* the request of a direct peer that sets no forwarding header
NoRequest == [xRealIP |-> NoHeader, xForwardedFor |-> NoHeader, peer |-> 1,
              trusted |-> FALSE]

\* gin's Context.ClientIP on the engine gin.New() makes (every peer counts as
\* a trusted proxy, X-Forwarded-For is looked at before X-Real-IP)
ClientIP(h) ==
  IF h.xForwardedFor # NoHeader THEN h.xForwardedFor
  ELSE IF h.xRealIP # NoHeader THEN h.xRealIP
  ELSE h.peer

\* RateLimiter.getClientID
getClientID(h) ==
  IF h.xRealIP # NoHeader THEN h.xRealIP
  ELSE IF h.xForwardedFor # NoHeader THEN h.xForwardedFor
  ELSE ClientIP(h)

Init ==
  /\ \E cfg \in Policies : NewRateLimiter(cfg, 0)
  /\ req = NoRequest
  /\ server = "running"
  /\ file = Written(config)
  /\ focus = 1
  /\ sweepLog = NoSweep
  /\ tally = NoTally
  /\ other = NoRegistry

\* a request enters the RateLimit middleware on a free request goroutine (the
\* idle ones are indistinguishable, the lowest is taken); getClientID yields c
\* and allow(c) is called
Call(r, c) ==
  /\ server = "running"
  /\ pc[r] = "idle"
  /\ \A q \in Reqs : pc[q] = "idle" => r <= q
  /\ ncalls < MaxCalls
  /\ ncalls' = ncalls + 1
  /\ pc' = [pc EXCEPT ![r] = "lock"]
  /\ cid' = [cid EXCEPT ![r] = c]
  /\ UNCHANGED <<outside, other, sweepLog, tally>>
  /\ UNCHANGED <<config, now, clients, objs, mu, lim, exists, res, rtime,
                 waited, http, jpc, tick, hist, swept>>

\* allow: rl.mu.Lock(), then limiter, exists := rl.clients[clientID]
Lock(r) ==
  /\ pc[r] = "lock"
  /\ MuAvailable
  /\ mu' = r
  /\ lim' = [lim EXCEPT ![r] = Lookup(cid[r])]
  /\ exists' = [exists EXCEPT ![r] = Lookup(cid[r]) # NoObj]
  /\ pc' = [pc EXCEPT ![r] = "cs"]
  /\ waited' = [q \in Reqs |-> IF q # r /\ pc[q] = "lock" THEN TRUE ELSE waited[q]]
  /\ UNCHANGED <<outside, other, sweepLog, tally>>
  /\ UNCHANGED <<config, now, clients, objs, cid, res, rtime, http, jpc, tick,
                 ncalls, hist, swept>>

\* what limiter l can hand out at time t: a limiter of limit 0 hands out its
\* burst, which it counts down, and refills nothing
Available(l, t) ==
  IF l.limit = 0 THEN l.burst * TicksPerSecond ELSE advance(l, t)

\* the history of a client after a call at time t answered ok by limiter l
\* (l is the limiter before the call)
Record(h, l, t, ok) ==
  LET a == IF ok THEN 1 ELSE 0
      full == config.BurstSize * TicksPerSecond
      filled == IF h.atime = ZeroTime THEN full
                ELSE Min(full, h.atok + config.RequestsPerSecond * (t - h.atime))
      g == IF ok THEN [h EXCEPT !.atime = t, !.atok = filled - TicksPerSecond]
           ELSE h
  IN  IF h.gcalls = 0 \/ h.gtime = t
      THEN [g EXCEPT !.gtime = t, !.gcalls = h.gcalls + 1, !.gadm = h.gadm + a]
      ELSE [g EXCEPT !.fresh = FALSE, !.ptime = h.gtime,
                     !.ptok = Available(l, h.gtime),
                     !.gtime = t, !.gcalls = 1, !.gadm = a]

\* ---- the handlers chain of the router ----

\* the methods and the paths of the requests tried: a path is one a route is
\* registered for ("route"), such a path with its trailing slash added or
\* removed ("slash"), or any other ("none")
Methods == {"GET", "PUT", "OPTIONS"}
Paths == {"route", "slash", "none"}
Arrivals == [method : Methods, path : Paths]

\* a wiring that registers CORS after the rate limiter
UseCORSLast ==
  <<"Recovery", "SecureHeaders", "CorrelationID", "RequestLogger", "RateLimit",
    "CORS">>

\* a wiring that registers RequestLogger after the rate limiter
UseLoggerLast ==
  <<"Recovery", "SecureHeaders", "CORS", "CorrelationID", "RateLimit",
    "RequestLogger">>

\* setupRouter: the router.Use calls, in their order
Use ==
  <<"Recovery", "SecureHeaders", "CORS", "CorrelationID", "RequestLogger",
    "RateLimit">>

\* the headers SecureHeaders sets
SecurityHeaders ==
  {"X-Content-Type-Options", "X-Frame-Options", "X-XSS-Protection",
   "Referrer-Policy", "Content-Security-Policy"}

\* the headers CORS sets whatever the origin is
CORSHeaders ==
  {"Access-Control-Allow-Methods", "Access-Control-Allow-Headers",
   "Access-Control-Allow-Credentials", "Access-Control-Max-Age",
   "Access-Control-Expose-Headers"}

\* c.Header(key, value) for each key of keys, value not empty
Header(h, keys) == [h EXCEPT !.headers = h.headers \cup keys]

\* c.AbortWithStatus(code): the status and the headers are written at once
AbortWithStatus(h, code) ==
  [h EXCEPT !.status = code, !.aborted = TRUE, !.sent = h.headers]

\* Recovery: a deferred recover() around c.Next(); none of the handlers
\* modelled panics
Recovery(h) == h

\* SecureHeaders, up to its c.Next()
SecureHeaders(h) == Header(h, SecurityHeaders)

\* CORS, up to its c.Next(): a preflight request is answered 204 and aborted
CORS(h) ==
  IF h.method = "OPTIONS" THEN AbortWithStatus(Header(h, CORSHeaders), 204)
  ELSE Header(h, CORSHeaders)

\* CorrelationID, up to its c.Next(): the id of the request, or a generated
\* one, is never empty
CorrelationID(h) == Header(h, {"X-Correlation-ID"})

\* c.Writer.Status(): 200 until a status is written
Status(h) == IF h.status = 0 THEN 200 ELSE h.status

\* RequestLogger, after its c.Next(): one line, its level chosen by the status
RequestLogger(h) ==
  LET statusCode == Status(h)
  IN  [h EXCEPT !.access = <<IF statusCode >= 500 THEN "error"
                             ELSE IF statusCode >= 400 THEN "warn"
                             ELSE "info", statusCode>>]

\* the part of handler name that runs before its c.Next()
Before(name, h) ==
  CASE name = "Recovery" -> Recovery(h)
    [] name = "SecureHeaders" -> SecureHeaders(h)
    [] name = "CORS" -> CORS(h)
    [] name = "CorrelationID" -> CorrelationID(h)
    [] OTHER -> h

\* the router answers by itself, with a redirection and no handler, a request
\* whose path matches a route of its method but for the trailing slash
\* (gin.New() sets RedirectTrailingSlash; no route is registered for OPTIONS)
Redirects(h) == h.method # "OPTIONS" /\ h.path = "slash"

\* the request matches no route: the chain is the handlers of router.Use
NoRoute(h) == h.method = "OPTIONS" \/ h.path = "none"

\* redirectTrailingSlash: 301 for GET, 307 otherwise
redirectTrailingSlash(h) ==
  [h EXCEPT !.status = IF h.method = "GET" THEN 301 ELSE 307,
            !.sent = {"Location"}]

\* the handlers of the route (its Cache middleware and its handler) answer
\* the request; a request without a route is answered by the router
Routes(h) ==
  IF NoRoute(h) THEN [h EXCEPT !.sent = IF h.sent = {} THEN h.headers ELSE h.sent]
  ELSE [h EXCEPT !.handled = TRUE, !.ran = Append(h.ran, "handlers"),
                 !.sent = h.headers]

\* c.Next() from handler i of chain on: each handler runs up to its own
\* c.Next() unless the context is aborted; the rate limiter takes the request
\* over when its turn comes
RECURSIVE Enter(_, _, _)
Enter(chain, i, h) ==
  IF h.aborted THEN h
  ELSE IF i > Len(chain) THEN Routes(h)
  ELSE IF chain[i] = "RateLimit" THEN [h EXCEPT !.ran = Append(h.ran, "RateLimit")]
  ELSE Enter(chain, i + 1,
             Before(chain[i], [h EXCEPT !.ran = Append(h.ran, chain[i])]))

\* the request waits for the rate limiter
AtLimiter(h) ==
  ~h.aborted /\ h.ran # <<>> /\ h.ran[Len(h.ran)] = "RateLimit"

\* the place of the rate limiter in the chain
Place == CHOOSE i \in 1..Len(Use) : Use[i] = "RateLimit"

\* the handlers entered return, the last one first: the part after c.Next()
\* of RequestLogger is the only one to do anything
Returns(h) ==
  IF \E i \in 1..Len(h.ran) : h.ran[i] = "RequestLogger" THEN RequestLogger(h)
  ELSE h

\* response.TooManyRequests: the 429 body, and its log line
TooManyRequests(h, message) ==
  [h EXCEPT !.status = 429, !.error = "rate_limit_exceeded",
            !.message = message, !.logged = h.logged + 1,
            !.sent = h.headers]

\* a denial that forgets c.Abort()
DenyNoAbort(h) ==
  TooManyRequests([h EXCEPT !.logged = h.logged + 1],
                  "Too many requests, please try again later")

\* the middleware on a denial: log, respond, c.Abort()
Deny(h) ==
  [TooManyRequests([h EXCEPT !.logged = h.logged + 1],
                   "Too many requests, please try again later")
     EXCEPT !.aborted = TRUE]

\* c.Next(): the rest of the chain runs unless the context was aborted
NextHandlers(h) == Enter(Use, Place + 1, h)

\* the RateLimit middleware once allow has returned ok
RateLimit(h, ok) == IF ~ok THEN NextHandlers(Deny(h)) ELSE NextHandlers(h)

\* allow: create and insert the ClientLimiter or refresh lastSeen, return
\* limiter.limiter.Allow() through the deferred rl.mu.Unlock(); then the
\* middleware answers the request
Allow(r) ==
  /\ pc[r] = "cs"
  /\ LET c == cid[r]
         i == IF exists[r] THEN lim[r] ELSE NewObj(r, c)
         cl == IF exists[r] THEN clients ELSE [clients EXCEPT ![c] = i]
         o == IF exists[r] THEN Touch(objs[i], now)
              ELSE NewClientLimiter(now)
         rv == reserveN(o.limiter, now)
     IN  /\ clients' = cl
         /\ objs' = Collect([objs EXCEPT ![i] = [o EXCEPT !.limiter = rv.lim]],
                            cl, [lim EXCEPT ![r] = NoObj])
         /\ hist' = [hist EXCEPT ![c] = Record(hist[c], o.limiter, now, rv.ok)]
         /\ tally' = Tallied(tally, c, now, rv.ok)
         /\ res' = [res EXCEPT ![r] = Returned(rv.ok)]
         /\ http' = [http EXCEPT ![r] = Returns(RateLimit(http[r], rv.ok))]
  /\ rtime' = [rtime EXCEPT ![r] = now]
  /\ mu' = IF mu = r THEN Released(r) ELSE mu
  /\ lim' = [lim EXCEPT ![r] = NoObj]
  /\ exists' = [exists EXCEPT ![r] = FALSE]
  /\ pc' = [pc EXCEPT ![r] = "done"]
  /\ UNCHANGED <<outside, other, sweepLog>>
  /\ UNCHANGED <<config, now, cid, waited, jpc, tick, ncalls, swept>>

\* the request is over and its goroutine is free again
Done(r) ==
  /\ pc[r] = "done"
  /\ pc' = [pc EXCEPT ![r] = "idle"]
  /\ cid' = [cid EXCEPT ![r] = 1]
  /\ res' = [res EXCEPT ![r] = NoResult]
  /\ rtime' = [rtime EXCEPT ![r] = ZeroTime]
  /\ waited' = [waited EXCEPT ![r] = FALSE]
  /\ http' = [http EXCEPT ![r] = NoHttp]
  /\ UNCHANGED <<outside, other, sweepLog, tally>>
  /\ UNCHANGED <<config, now, clients, objs, mu, lim, exists, jpc, tick,
                 ncalls, hist, swept>>

\* cleanupExpiredClients: for range ticker.C
JRecv ==
  /\ jpc = "wait"
  /\ tick
  /\ tick' = FALSE
  /\ jpc' = "lock"
  /\ UNCHANGED <<outside, other, sweepLog, tally>>
  /\ UNCHANGED <<config, now, clients, objs, mu, pc, cid, lim, exists, res,
                 rtime, waited, http, ncalls, hist, swept>>

\* cleanupExpiredClients: rl.mu.Lock()
JLock ==
  /\ jpc = "lock"
  /\ MuAvailable
  /\ mu' = Janitor
  /\ jpc' = "sweep"
  /\ waited' = [q \in Reqs |-> IF pc[q] = "lock" THEN TRUE ELSE waited[q]]
  /\ UNCHANGED <<outside, other, sweepLog, tally>>
  /\ UNCHANGED <<config, now, clients, objs, pc, cid, lim, exists, res, rtime,
                 http, tick, ncalls, hist, swept>>

\* cleanupExpiredClients: the cutoff and the deleting range loop
JSweep ==
  /\ jpc = "sweep"
  /\ LET cut == cutoff(now)
         gone == {c \in Clients : clients[c] # NoObj /\ Expired(objs[clients[c]], cut)}
         cl == [c \in Clients |-> IF c \in gone THEN NoObj ELSE clients[c]]
     IN  /\ clients' = cl
         /\ objs' = Collect(objs, cl, lim)
         /\ hist' = [c \in Clients |->
                       IF c \in gone
                       THEN [NoHist EXCEPT !.reborn =
                               IF objs[clients[c]].limiter.tokens < TicksPerSecond
                               THEN "drained" ELSE "full"]
                       ELSE hist[c]]
         /\ swept' = gone
         /\ tally' = Forgot(tally, gone)
  /\ jpc' = "unlock"
  /\ sweepLog' = Logged(sweepLog, now,
                        [c \in Clients |->
                           IF Present(c) THEN Entry(c).lastSeen ELSE ZeroTime])
  /\ UNCHANGED <<outside, other>>
  /\ UNCHANGED <<config, now, mu, pc, cid, lim, exists, res, rtime, waited,
                 http, tick, ncalls>>

\* cleanupExpiredClients: rl.mu.Unlock()
JUnlock ==
  /\ jpc = "unlock"
  /\ mu' = IF mu = Janitor THEN Released(Janitor) ELSE mu
  /\ jpc' = "wait"
  /\ swept' = {}
  /\ sweepLog' = [sweepLog EXCEPT !.prev = ZeroTime, !.seen = NoSeen]
  /\ UNCHANGED <<outside, other, tally>>
  /\ UNCHANGED <<config, now, clients, objs, pc, cid, lim, exists, res, rtime,
                 waited, http, tick, ncalls, hist>>

\* time passes; the ticker drops a tick into its one-slot channel every
\* CleanupInterval.  A request that allow has answered is finished within the
\* tick (finishing touches nothing shared).
Tick ==
  /\ now < MaxTime
  /\ \A r \in Reqs : pc[r] # "done"
  /\ now' = now + 1
  /\ tick' = Ticked(tick, [built |-> TRUE, config |-> config], now + 1)
  /\ other' = [other EXCEPT !.tick = Ticked(@, other, now + 1)]
  /\ UNCHANGED <<outside, sweepLog, tally>>
  /\ UNCHANGED <<config, clients, objs, mu, pc, cid, lim, exists, res, rtime,
                 waited, http, jpc, ncalls, hist, swept>>

Next ==
  \/ \E r \in Reqs, c \in Clients : Call(r, c)
  \/ \E r \in Reqs : Lock(r)
  \/ \E r \in Reqs : Allow(r)
  \/ \E r \in Reqs : Done(r)
  \/ JRecv
  \/ JLock
  \/ JSweep
  \/ JUnlock
  \/ Tick

Spec == Init /\ [][Next]_vars

\* Scheduling: a goroutine that can run does run (weak fairness of the steps
\* made while holding the mutex), and sync.Mutex hands the mutex to a waiter
\* that keeps being passed over (its starvation mode), which is strong
\* fairness of the acquisitions.
Fairness ==
  /\ \A r \in Reqs : SF_vars(Lock(r)) /\ WF_vars(Allow(r))
  /\ WF_vars(JSweep) /\ WF_vars(JUnlock)

\* the strictest policy of the bounds (one token per second, bursts of one,
\* a sweep every tick), watched for the LiveTicks ticks an eviction takes
InitLive ==
  /\ NewRateLimiter([RequestsPerSecond |-> 1, BurstSize |-> 1, CleanupInterval |-> 1],
                    MaxTime - LiveTicks)
  /\ req = NoRequest
  /\ server = "running"
  /\ file = Written(config)
  /\ focus = 1
  /\ sweepLog = NoSweep
  /\ tally = NoTally
  /\ other = NoRegistry

\* the middleware serves the request req: clientID := rl.getClientID(c), then
\* rl.allow(clientID)
Serve(r) == Call(r, getClientID(req))

\* the server is given one request, any of Requests, up to MaxCalls times
InitID ==
  /\ \E cfg \in Policies : NewRateLimiter(cfg, 0)
  /\ req \in Requests
  /\ server = "running"
  /\ file = Written(config)
  /\ focus = 1
  /\ sweepLog = NoSweep
  /\ tally = NoTally
  /\ other = NoRegistry

NextID ==
  \/ \E r \in Reqs : Serve(r)
  \/ \E r \in Reqs : Lock(r)
  \/ \E r \in Reqs : Allow(r)
  \/ \E r \in Reqs : Done(r)

SpecID == InitID /\ [][NextID]_vars

\* ---- the sweeps watched ----

\* the policies with the longest CleanupInterval, the sweeps being logged
InitSweep ==
  /\ \E cfg \in Policies :
       cfg.CleanupInterval = MaxInterval /\ NewRateLimiter(cfg, 0)
  /\ req = NoRequest
  /\ server = "running"
  /\ file = Written(config)
  /\ focus = 1
  /\ sweepLog = [NoSweep EXCEPT !.on = TRUE]
  /\ tally = NoTally
  /\ other = NoRegistry

SpecSweep == InitSweep /\ [][Next]_vars

\* ---- two registries in one process ----

\* the goroutines of the registry in focus are at rest
AtRest ==
  /\ \A r \in Reqs : pc[r] = "idle"
  /\ jpc = "wait"
  /\ mu = Free

\* the goroutines of the other registry get to run: from here on the
\* variables describe that registry.  Each registry has the config, the
\* ticker and the map NewRateLimiter gave it.
Switch ==
  /\ other.built
  /\ AtRest
  /\ focus' = 3 - focus
  /\ config' = other.config
  /\ tick' = other.tick
  /\ LET own == make(1) # make(2)
     IN  /\ clients' = IF own THEN other.clients ELSE clients
         /\ objs' = IF own THEN other.objs ELSE objs
         /\ hist' = IF own THEN other.hist ELSE hist
  /\ other' = Registry(config, clients, objs, hist, tick)
  /\ UNCHANGED <<now, mu, pc, cid, lim, exists, res, rtime, waited, http, jpc,
                 ncalls, swept, req, server, file, sweepLog, tally>>

\* two registries made by two calls of NewRateLimiter with different
\* policies, as a test would make them
InitPair ==
  /\ NewRateLimiter([RequestsPerSecond |-> 1, BurstSize |-> 1, CleanupInterval |-> 1],
                    MaxTime - LiveTicks)
  /\ req = NoRequest
  /\ server = "running"
  /\ file = NoFile
  /\ focus = 1
  /\ sweepLog = NoSweep
  /\ tally = NoTally
  /\ other = Registry([RequestsPerSecond |-> MaxRate, BurstSize |-> MaxBurst,
                       CleanupInterval |-> MaxInterval],
                      [c \in Clients |-> NoObj], [i \in ObjIds |-> NoLimiter],
                      [c \in Clients |-> NoHist], FALSE)

NextPair ==
  \/ \E r \in Reqs, c \in Clients : Call(r, c)
  \/ \E r \in Reqs : Lock(r)
  \/ \E r \in Reqs : Allow(r)
  \/ \E r \in Reqs : Done(r)
  \/ JRecv
  \/ JLock
  \/ JSweep
  \/ JUnlock
  \/ Tick
  \/ Switch

SpecPair == InitPair /\ [][NextPair]_vars

\* ---- the start of the server ----

\* main: config.Load(), then setupRouter builds the registry from it
InitLoad ==
  /\ file \in ConfigFiles
  /\ NewRateLimiter(setupRouter(Load(file)), 0)
  /\ req = NoRequest
  /\ server = "running"
  /\ focus = 1
  /\ sweepLog = NoSweep
  /\ tally = NoTally
  /\ other = NoRegistry

SpecLoad == InitLoad /\ [][Next]_vars

\* ---- a rate that is not positive ----

\* the rates of a misconfigured policy: zero, and a negative one
DegenerateRates == {-1, 0}

\* a registry constructed with such a rate, its calls being counted
InitDegenerate ==
  /\ \E cfg \in [RequestsPerSecond : DegenerateRates, BurstSize : 1..MaxBurst,
                  CleanupInterval : 1..MaxInterval] : NewRateLimiter(cfg, 0)
  /\ req = NoRequest
  /\ server = "running"
  /\ file = Written(config)
  /\ focus = 1
  /\ sweepLog = NoSweep
  /\ tally = [NoTally EXCEPT !.on = TRUE]
  /\ other = NoRegistry

SpecDegenerate == InitDegenerate /\ [][Next]_vars

\* ---- a policy nobody checked ----

\* the policies NewRateLimiter can be given: every value positive, zero or
\* negative
Unchecked == [RequestsPerSecond : -1..1, BurstSize : -1..1,
              CleanupInterval : -1..1]

\* NewRateLimiter has returned, the cleanup goroutine has not run yet
InitConstruct ==
  /\ \E cfg \in Unchecked : Constructed(cfg, 0, "start")
  /\ req = NoRequest
  /\ server = "running"
  /\ file = Written(config)
  /\ focus = 1
  /\ sweepLog = NoSweep
  /\ tally = NoTally
  /\ other = NoRegistry

\* cleanupExpiredClients: ticker := time.NewTicker(rl.config.CleanupInterval),
\* which panics when the interval is not positive; nothing recovers the
\* panic of the goroutine and the process dies
NewTicker ==
  /\ jpc = "start"
  /\ IF config.CleanupInterval > 0
     THEN jpc' = "wait" /\ server' = server
     ELSE jpc' = "panic" /\ server' = "crashed"
  /\ UNCHANGED <<config, now, clients, objs, mu, pc, cid, lim, exists, res,
                 rtime, waited, http, tick, ncalls, hist, swept, req, file,
                 sweepLog, focus, other, tally>>

\* the process from the return of NewRateLimiter: the goroutine makes its
\* ticker, then the server listens
NextConstruct ==
  \/ NewTicker
  \/ \E r \in Reqs, c \in Clients : jpc = "wait" /\ Call(r, c)
  \/ \E r \in Reqs : Lock(r)
  \/ \E r \in Reqs : Allow(r)
  \/ \E r \in Reqs : Done(r)
  \/ JRecv
  \/ JLock
  \/ JSweep
  \/ JUnlock
  \/ jpc # "start" /\ server = "running" /\ Tick

SpecConstruct == InitConstruct /\ [][NextConstruct]_vars

\* ---- the admissions of a client over a window ----

\* the limiter of a new entry after n calls made at time t
RECURSIVE Spent(_, _)
Spent(n, t) ==
  IF n = 0 THEN NewLimiter(config.RequestsPerSecond, config.BurstSize)
  ELSE reserveN(Spent(n - 1, t), t).lim

\* a registry with a slow rate, the largest burst and the shortest
\* CleanupInterval, in which client 1 has just spent its burst of two: its
\* two requests were admitted at time 0 and are over; the admissions are
\* counted from the first on
InitWindow ==
  /\ config = [RequestsPerSecond |-> 1, BurstSize |-> 2, CleanupInterval |-> 1]
  /\ now = 0
  /\ clients = [c \in Clients |-> IF c = 1 THEN 1 ELSE NoObj]
  /\ objs = [i \in ObjIds |->
               IF i = 1 THEN [limiter |-> Spent(2, 0), lastSeen |-> 0]
               ELSE NoLimiter]
  /\ mu = Free
  /\ pc = [r \in Reqs |-> "idle"]
  /\ cid = [r \in Reqs |-> 1]
  /\ lim = [r \in Reqs |-> NoObj]
  /\ exists = [r \in Reqs |-> FALSE]
  /\ res = [r \in Reqs |-> NoResult]
  /\ rtime = [r \in Reqs |-> ZeroTime]
  /\ waited = [r \in Reqs |-> FALSE]
  /\ http = [r \in Reqs |-> NoHttp]
  /\ jpc = "wait"
  /\ tick = FALSE
  /\ ncalls = 0
  /\ hist = [c \in Clients |->
               IF c = 1
               THEN Record(Record(NoHist, Spent(0, 0), 0, TRUE),
                           Spent(1, 0), 0, TRUE)
               ELSE NoHist]
  /\ swept = {}
  /\ req = NoRequest
  /\ server = "running"
  /\ file = Written(config)
  /\ focus = 1
  /\ sweepLog = NoSweep
  /\ tally = Tallied(Tallied([NoTally EXCEPT !.on = TRUE], 1, 0, TRUE),
                     1, 0, TRUE)
  /\ other = NoRegistry

SpecWindow == InitWindow /\ [][Next]_vars

\* ---- the requests of every method and path ----

\* Engine.ServeHTTP for a request of method and path q sent by client c: the
\* router redirects it, or runs the chain on it from its first handler; the
\* request then waits for the rate limiter (clientID := rl.getClientID(c)),
\* or it was answered before and the handlers entered return
ServeHTTP(r, q, c) ==
  /\ server = "running"
  /\ pc[r] = "idle"
  /\ \A p \in Reqs : pc[p] = "idle" => r <= p
  /\ ncalls < MaxCalls
  /\ ncalls' = ncalls + 1
  /\ LET h == [NoHttp EXCEPT !.method = q.method, !.path = q.path, !.peer = c]
         g == IF Redirects(h) THEN redirectTrailingSlash(h)
              ELSE Enter(Use, 1, [h EXCEPT !.status = IF NoRoute(h) THEN 404 ELSE 0])
     IN  IF AtLimiter(g)
         THEN /\ pc' = [pc EXCEPT ![r] = "lock"]
              /\ cid' = [cid EXCEPT ![r] = c]
              /\ http' = [http EXCEPT ![r] = g]
         ELSE /\ pc' = [pc EXCEPT ![r] = "done"]
              /\ cid' = cid
              /\ http' = [http EXCEPT ![r] = Returns(g)]
  /\ UNCHANGED <<outside, other, sweepLog, tally>>
  /\ UNCHANGED <<config, now, clients, objs, mu, lim, exists, res, rtime,
                 waited, jpc, tick, hist, swept>>

\* the strictest policy of the bounds, watched for LiveTicks ticks
InitChain ==
  /\ NewRateLimiter([RequestsPerSecond |-> 1, BurstSize |-> 1, CleanupInterval |-> 1],
                    MaxTime - LiveTicks)
  /\ req = NoRequest
  /\ server = "running"
  /\ file = Written(config)
  /\ focus = 1
  /\ sweepLog = NoSweep
  /\ tally = NoTally
  /\ other = NoRegistry

NextChain ==
  \/ \E r \in Reqs, q \in Arrivals, c \in Clients : ServeHTTP(r, q, c)
  \/ \E r \in Reqs : Lock(r)
  \/ \E r \in Reqs : Allow(r)
  \/ \E r \in Reqs : Done(r)
  \/ JRecv
  \/ JLock
  \/ JSweep
  \/ JUnlock
  \/ Tick

SpecChain == InitChain /\ [][NextChain]_vars

\* ---- the end of the server ----

registry == <<config, now, clients, objs, mu, pc, cid, lim, exists, res, rtime,
              waited, http, jpc, tick, ncalls, hist, swept>>

\* main: the signal arrives and server.Shutdown(ctx) is called; no new
\* request is accepted, the ones in flight are waited for
Shutdown ==
  /\ server = "running"
  /\ server' = "stopping"
  /\ UNCHANGED <<registry, req, file, sweepLog, focus, other, tally>>

\* main: server.Shutdown has returned (no request is in flight), main returns
\* and the process ends with all its goroutines
Exit ==
  /\ server = "stopping"
  /\ \A r \in Reqs : pc[r] = "idle"
  /\ server' = "exited"
  /\ UNCHANGED <<registry, req, file, sweepLog, focus, other, tally>>

\* the process of main from the start of the server to its exit
NextStop ==
  \/ \E r \in Reqs, c \in Clients : Call(r, c)
  \/ \E r \in Reqs : server # "exited" /\ Lock(r)
  \/ \E r \in Reqs : server # "exited" /\ Allow(r)
  \/ \E r \in Reqs : server # "exited" /\ Done(r)
  \/ server # "exited" /\ JRecv
  \/ server # "exited" /\ JLock
  \/ server # "exited" /\ JSweep
  \/ server # "exited" /\ JUnlock
  \/ server # "exited" /\ Tick
  \/ Shutdown
  \/ Exit

SpecStop == InitLive /\ [][NextStop]_vars

SpecLive == InitLive /\ [][Next]_vars /\ Fairness

\* The clock goes on, a request that was answered ends, and the cleanup
\* goroutine is scheduled like the others: it receives the tick that waits
\* in ticker.C and gets the mutex it asks for.
FairnessOfSweeps ==
  /\ Fairness
  /\ WF_vars(Tick)
  /\ \A r \in Reqs : WF_vars(Done(r))
  /\ WF_vars(JRecv)
  /\ SF_vars(JLock)

\* the strictest policy again, the sweeps being logged
InitDrain ==
  /\ NewRateLimiter([RequestsPerSecond |-> 1, BurstSize |-> 1, CleanupInterval |-> 1],
                    MaxTime - LiveTicks)
  /\ req = NoRequest
  /\ server = "running"
  /\ file = Written(config)
  /\ focus = 1
  /\ sweepLog = [NoSweep EXCEPT !.on = TRUE]
  /\ tally = NoTally
  /\ other = NoRegistry

SpecDrain == InitDrain /\ [][Next]_vars /\ FairnessOfSweeps

\* ---- properties ----

Burst == config.BurstSize * TicksPerSecond

\* C1 (burst admission): while every call made for a client since its entry
\* was created came at the instant of creation, the calls admitted are the
\* first BurstSize ones: of n calls exactly min(n, BurstSize) were admitted,
\* so the calls up to the BurstSize-th return true and the next ones false.
BurstAdmission ==
  \A c \in Clients :
    hist[c].fresh => hist[c].gadm = Min(hist[c].gcalls, config.BurstSize)

\* a fresh client has made BurstSize + 1 calls at one instant
BurstAdmissionWitness ==
  \E c \in Clients :
    /\ Present(c) /\ hist[c].fresh
    /\ hist[c].gcalls = config.BurstSize + 1
    /\ hist[c].gadm = config.BurstSize

\* the requests answered for client c at the instant of its current run
Answered(c) ==
  {r \in Reqs : pc[r] = "done" /\ cid[r] = c /\ rtime[r] = hist[c].gtime}

Admitted(c) == {r \in Answered(c) : res[r] = Returned(TRUE)}

\* C2 (concurrency safety): when the K requests answered so far for a fresh
\* client are all the calls made for it, all at one instant, exactly
\* min(K, BurstSize) of them were told true and the others false, and the
\* tokens left are BurstSize minus the admissions: with K > BurstSize exactly
\* BurstSize are admitted and K - BurstSize denied, whatever the interleaving.
ConcurrencySafety ==
  \A c \in Clients :
    (Present(c) /\ hist[c].fresh /\ Cardinality(Answered(c)) = hist[c].gcalls)
    => /\ Cardinality(Admitted(c)) = Min(Cardinality(Answered(c)), config.BurstSize)
       /\ Cardinality(Answered(c) \ Admitted(c))
            = Max(0, Cardinality(Answered(c)) - config.BurstSize)
       /\ Entry(c).limiter.tokens = Burst - Cardinality(Admitted(c)) * TicksPerSecond

\* more requests than BurstSize were in flight together for one fresh client,
\* one of them having waited for the mutex, and all are answered
ConcurrencySafetyWitness ==
  \E c \in Clients :
    /\ Present(c) /\ hist[c].fresh
    /\ Cardinality(Answered(c)) = hist[c].gcalls
    /\ Cardinality(Answered(c)) > config.BurstSize
    /\ Cardinality(Admitted(c)) = config.BurstSize
    /\ \E r \in Answered(c) : waited[r]

\* the run of calls in progress for c started after an earlier run had left
\* less than one token in the bucket
Drained(c) == Present(c) /\ ~hist[c].fresh /\ hist[c].ptok < TicksPerSecond

\* ticks between the end of the earlier run and the run in progress
Waited(c) == hist[c].gtime - hist[c].ptime

\* C3 as claimed (refill over time): after the bucket was drained and the
\* client waited, the calls admitted at one instant are exactly
\* min(BurstSize, floor(RequestsPerSecond * elapsedSeconds)) and the next one
\* is denied.
RefillFloorOfRate ==
  \A c \in Clients :
    Drained(c) =>
      hist[c].gadm =
        Min(hist[c].gcalls,
            Min(config.BurstSize,
                (config.RequestsPerSecond * Waited(c)) \div TicksPerSecond))

\* the whole tokens in an amount: a token counts as whole once what is missing
\* from it refills in less than one clock tick
WholeTokens(amount) ==
  (amount + config.RequestsPerSecond - 1) \div TicksPerSecond

\* C3 as amended: the calls admitted at one instant after a drained bucket
\* waited are exactly the whole tokens in min(BurstSize, leftover +
\* RequestsPerSecond * elapsedSeconds), leftover being the tokens (less than
\* one) the bucket held when the wait began; the next call is denied.
RefillOverTime ==
  \A c \in Clients :
    Drained(c) =>
      hist[c].gadm =
        Min(hist[c].gcalls,
            WholeTokens(Min(Burst, hist[c].ptok
                                   + config.RequestsPerSecond * Waited(c))))

\* a drained client waited, was then admitted and then denied at one instant
RefillOverTimeWitness ==
  \E c \in Clients :
    /\ Drained(c)
    /\ hist[c].gadm >= 1
    /\ hist[c].gcalls > hist[c].gadm

\* request r takes a step of the middleware
Steps(r) == pc'[r] # pc[r]

\* C4 (per-client independence): a step of a request for client A leaves the
\* key, the tokens, the refill time, lastSeen and the history of every other
\* client as they were, and removes no entry; so what allow(B) answers does
\* not depend on the calls made for A.
PerClientIndependence ==
  [][\A r \in Reqs :
       Steps(r) =>
         /\ \A b \in Clients \ {cid'[r]} :
              /\ clients'[b] = clients[b]
              /\ hist'[b] = hist[b]
              /\ Present(b) => objs'[clients[b]] = objs[clients[b]]
         /\ \A a \in Clients : Present(a) => clients'[a] # NoObj]_vars

\* client a was denied at one instant and client b, created later, admitted
PerClientIndependenceWitness ==
  \E a, b \in Clients :
    /\ a # b /\ Present(a) /\ Present(b)
    /\ hist[a].gcalls > hist[a].gadm
    /\ hist[b].fresh /\ hist[b].gadm >= 1
    /\ hist[b].gtime > hist[a].gtime
    /\ Entry(b).limiter.tokens = Burst - hist[b].gadm * TicksPerSecond

\* the cleanup goroutine runs its range loop
Sweeps == jpc = "sweep" /\ jpc' = "unlock"

\* C5 (idle eviction): right after a sweep made at time t no entry has
\* lastSeen < t - 2 * CleanupInterval, and every entry that had
\* lastSeen >= t - 2 * CleanupInterval before the sweep is still there,
\* unchanged.
IdleEviction ==
  [][Sweeps =>
       \A c \in Clients :
         /\ clients'[c] # NoObj =>
              objs'[clients'[c]].lastSeen >= now - 2 * config.CleanupInterval
         /\ (Present(c) /\ Entry(c).lastSeen >= now - 2 * config.CleanupInterval)
              => /\ clients'[c] = clients[c]
                 /\ objs'[clients[c]] = Entry(c)]_vars

\* a sweep has just removed one entry and kept another
IdleEvictionWitness ==
  /\ jpc = "unlock"
  /\ swept # {}
  /\ \E c \in Clients : Present(c)
  /\ \A c \in swept : ~Present(c)

\* C6 (re-creation after eviction): once a sweep has removed the entry of a
\* client the client has no entry until its next call; that call makes a new
\* entry with a full bucket whatever the removed one held: it is admitted, of
\* n calls at that instant min(n, BurstSize) are admitted, and the tokens
\* left are BurstSize minus the admissions.
ReCreation ==
  \A c \in Clients :
    hist[c].reborn # "no" =>
      /\ hist[c].gcalls = 0 => ~Present(c)
      /\ hist[c].gcalls >= 1 => Present(c)
      /\ (hist[c].gcalls >= 1 /\ hist[c].fresh) =>
           /\ hist[c].gadm = Min(hist[c].gcalls, config.BurstSize)
           /\ Entry(c).limiter.tokens = Burst - hist[c].gadm * TicksPerSecond
           /\ Entry(c).limiter.last = hist[c].gtime

\* an entry removed while drained was made again and has answered
\* BurstSize + 1 calls at one instant
ReCreationWitness ==
  \E c \in Clients :
    /\ hist[c].reborn = "drained" /\ hist[c].fresh /\ Present(c)
    /\ hist[c].gcalls = config.BurstSize + 1
    /\ hist[c].gadm = config.BurstSize

\* C7 (token bounds): every entry of the registry has 0 <= tokens <= BurstSize.
TokenBounds ==
  \A c \in Clients :
    Present(c) => /\ 0 <= Entry(c).limiter.tokens
                  /\ Entry(c).limiter.tokens <= Burst

\* the objects in use
LiveObjs == {i \in ObjIds : objs[i] # NoLimiter}

\* C8 (entry lifetime): a key appears only by the allow of a request for that
\* key which found it absent, disappears only in a sweep and only if its
\* lastSeen was before now - 2 * CleanupInterval, and otherwise keeps its
\* object; the objects in use are exactly those of the keys, one each, and a
\* request inside allow holds the object of its key.
EntryLifetime ==
  [][/\ \A c \in Clients :
         /\ (~Present(c) /\ clients'[c] # NoObj) =>
              \E r \in Reqs : /\ pc[r] = "cs" /\ pc'[r] = "done"
                              /\ cid[r] = c /\ ~exists[r]
         /\ (Present(c) /\ clients'[c] = NoObj) =>
              /\ Sweeps
              /\ Entry(c).lastSeen < now - 2 * config.CleanupInterval
         /\ (Present(c) /\ clients'[c] # NoObj) => clients'[c] = clients[c]
     /\ \A a, b \in Clients :
         (a # b /\ clients'[a] # NoObj) => clients'[a] # clients'[b]
     /\ LiveObjs' = {clients'[c] : c \in Clients} \ {NoObj}
     /\ \A r \in Reqs : lim'[r] # NoObj => lim'[r] = clients'[cid'[r]]]_vars

\* a key was created, removed by a sweep and created again, next to another
EntryLifetimeWitness ==
  \E a, b \in Clients :
    /\ a # b /\ Present(a) /\ Present(b)
    /\ hist[a].reborn # "no"

\* C9 (allow is total and does not block for ever): every request that has
\* called allow and waits for the mutex gets it, is answered true or false
\* and has released the mutex; no state is reached from which a caller
\* stays blocked.
AllowTerminates ==
  \A r \in Reqs :
    (pc[r] = "lock")
      ~> (pc[r] = "done" /\ res[r] \in {Returned(b) : b \in BOOLEAN} /\ mu # r)

\* a request waited for the mutex behind the sweep and was then answered
AllowTerminatesWitness ==
  \E r \in Reqs : pc[r] = "done" /\ waited[r] /\ mu # r
                  /\ res[r] \in {Returned(b) : b \in BOOLEAN}
                  /\ jpc = "wait" /\ \E c \in Clients : hist[c].reborn # "no"

\* C10 (deny gates the request): a request allow answered false gets status
\* 429 with error "rate_limit_exceeded" and a message, is logged, has its
\* chain aborted and no later handler run; a request allow answered true gets
\* no response from the middleware and its chain goes on.
DenyGates ==
  \A r \in Reqs :
    pc[r] = "done" =>
      /\ res[r] = Returned(FALSE) =>
           /\ http[r].status = 429
           /\ http[r].error = "rate_limit_exceeded"
           /\ http[r].message # ""
           /\ http[r].logged >= 1
           /\ http[r].aborted
           /\ ~http[r].handled
      /\ res[r] = Returned(TRUE) =>
           /\ http[r].status = 0 /\ http[r].error = "" /\ http[r].message = ""
           /\ http[r].logged = 0
           /\ ~http[r].aborted
           /\ http[r].handled

\* one request was denied and another admitted
DenyGatesWitness ==
  \E r, q \in Reqs :
    /\ pc[r] = "done" /\ res[r] = Returned(FALSE) /\ http[r].status = 429
    /\ pc[q] = "done" /\ res[q] = Returned(TRUE) /\ http[q].handled

\* the identifier a request is to be charged to: a forwarding header counts
\* only when the peer that sent it is trusted
TrustedID(h) ==
  IF h.trusted /\ h.xRealIP # NoHeader THEN h.xRealIP
  ELSE IF h.trusted /\ h.xForwardedFor # NoHeader THEN h.xForwardedFor
  ELSE h.peer

\* C11 (client identifier precedence): the identifier passed to allow is the
\* X-Real-IP header of a trusted peer if not empty, else its X-Forwarded-For
\* header if not empty, else the address of the peer; the headers of an
\* untrusted peer do not choose the entry the request is charged to.
TrustedPrecedence ==
  \A r \in Reqs :
    /\ pc[r] \in {"lock", "cs", "done"} => cid[r] = TrustedID(req)
    /\ pc[r] = "done" => Present(TrustedID(req))

\* C12 (the janitor can be cancelled): the registry has a stop operation tied
\* to its lifetime or to the shutdown of the server, and once it was invoked
\* no sweep runs any more.  The shutdown of the server is the only stop there
\* is: from the moment server.Shutdown is called no sweep is made.
NoSweepAfterStop == [][server # "running" => ~Sweeps]_vars

\* the rate the configuration asks for, in units of 1/FracDenom request per
\* second
Wanted == Get(file).requests_per_second[1]

\* the whole tokens in an amount given in units of 1/FracDenom of a token
\* unit, at the rate Wanted
WholeTokensWanted(amount) ==
  (amount + Wanted - 1) \div (TicksPerSecond * FracDenom)

\* C13 (fractional rates): the rate is a real number and no refill is
\* truncated: a wait of d seconds at the configured rate r gives exactly r*d
\* tokens (capped at BurstSize), also for r*d < 1 and for r not an integer,
\* so a drained client that waited is admitted for exactly the whole tokens
\* of min(BurstSize, leftover + r*d).
FractionalRates ==
  \A c \in Clients :
    Drained(c) =>
      hist[c].gadm =
        Min(hist[c].gcalls,
            WholeTokensWanted(Min(Burst * FracDenom,
                                  hist[c].ptok * FracDenom + Wanted * Waited(c))))

\* C15 (configuration presets): a server started with no rate_limit key set
\* runs the policy of 10 requests per second, bursts of 20 and a cleanup
\* every 5 minutes, which is also DefaultRateLimitConfig, and its limiters are
\* made with that rate and burst; StrictRateLimitConfig is 5 requests per
\* second, bursts of 10 and a cleanup every 5 minutes.
Presets ==
  /\ file = NoFile =>
        /\ config = [RequestsPerSecond |-> 10, BurstSize |-> 20,
                     CleanupInterval |-> 5 * 60 * TicksPerSecond]
        /\ config = DefaultRateLimitConfig
        /\ \A c \in Clients :
             Present(c) => /\ Entry(c).limiter.limit = 10
                           /\ Entry(c).limiter.burst = 20
  /\ StrictRateLimitConfig = [RequestsPerSecond |-> 5, BurstSize |-> 10,
                              CleanupInterval |-> 5 * 60 * TicksPerSecond]

\* the server started with no key set has admitted requests of two clients
PresetsWitness ==
  /\ file = NoFile
  /\ \A c \in Clients : Present(c) /\ hist[c].gadm >= 1

\* the client map, the limiters and the policy of registry k
RegClients(k) ==
  IF k = focus \/ make(k) = make(focus) THEN clients ELSE other.clients

RegObjs(k) ==
  IF k = focus \/ make(k) = make(focus) THEN objs ELSE other.objs

RegConfig(k) == IF k = focus THEN config ELSE other.config

\* what allow(c) of registry k would answer now
RegDecision(k, c) ==
  LET i == RegClients(k)[c]
      l == IF i = NoObj
           THEN NewLimiter(RegConfig(k).RequestsPerSecond, RegConfig(k).BurstSize)
           ELSE RegObjs(k)[i].limiter
  IN  reserveN(l, now).ok

\* C14 (independent instances): the state of a registry belongs to the
\* object NewRateLimiter returned: no step of a request or of the sweep of
\* one registry changes the client map or the limiters of the other, nor what
\* the allow of the other would answer.
IndependentInstances ==
  [][focus' = focus =>
       \A k \in Regs \ {focus} :
         /\ RegClients(k)' = RegClients(k)
         /\ RegObjs(k)' = RegObjs(k)
         /\ now' = now =>
              \A c \in Clients : RegDecision(k, c)' = RegDecision(k, c)]_vars

\* registry 1 has denied a client and swept, registry 2 holds an entry of the
\* same client after admitting it
IndependentInstancesWitness ==
  \E c \in Clients :
    /\ focus = 1 /\ other.built
    /\ hist[c].reborn # "no"
    /\ other.clients[c] # NoObj
    /\ other.hist[c].gadm >= 1

\* the goroutines inside a critical section of rl.mu
InCritical ==
  {r \in Reqs : pc[r] = "cs"} \cup (IF jpc \in {"sweep", "unlock"} THEN {Janitor} ELSE {})

\* C16 (sweep and allow are atomic to each other): at most one goroutine, a
\* request inside allow or the sweep, is inside a critical section and it
\* holds the mutex; the entry a request found in the map is still the entry
\* of its client when allow charges it, and the key it found absent is still
\* absent; allow changes no ClientLimiter but the one the map holds for the
\* client afterwards; and the first call after an eviction leaves a new
\* limiter, with a full burst less the one admission, whatever was evicted.
SweepAllowAtomicity ==
  [][/\ Cardinality(InCritical') <= 1
     /\ \A g \in InCritical' : mu' = g
     /\ \A r \in Reqs :
          /\ pc'[r] = "cs" =>
               /\ cid'[r] \notin swept'
               /\ lim'[r] = clients'[cid'[r]]
               /\ exists'[r] <=> clients'[cid'[r]] # NoObj
          /\ (pc[r] = "cs" /\ pc'[r] = "done") =>
               /\ clients'[cid[r]] # NoObj
               /\ \A i \in ObjIds : objs'[i] # objs[i] => i = clients'[cid[r]]
               /\ (hist[cid[r]].reborn # "no" /\ hist[cid[r]].gcalls = 0) =>
                    /\ res'[r] = Returned(TRUE)
                    /\ objs'[clients'[cid[r]]] =
                         [limiter |-> [limit |-> config.RequestsPerSecond,
                                       burst |-> config.BurstSize,
                                       tokens |-> Burst - TicksPerSecond,
                                       last |-> now],
                          lastSeen |-> now]]_vars

\* a request that called allow waits for the mutex while the sweep, which
\* holds it, has removed the entry of the request's client
SweepAllowAtomicityWitness ==
  \E r \in Reqs :
    /\ pc[r] = "lock" /\ waited[r]
    /\ jpc = "unlock" /\ mu = Janitor
    /\ cid[r] \in swept

\* C17 (a denied request consumes nothing): when allow answers false the
\* entry existed already and the tokens its limiter can hand out, now and at
\* every later time, are what they were before the call: the refilled value,
\* not decremented; so allow answers at every later time what it would have
\* answered had the denied call not been made.
DeniedConsumesNothing ==
  [][\A r \in Reqs :
       (pc[r] = "cs" /\ pc'[r] = "done" /\ res'[r] = Returned(FALSE)) =>
         /\ exists[r]
         /\ clients'[cid[r]] = lim[r]
         /\ \A t \in now..MaxTime :
              /\ Available(objs'[lim[r]].limiter, t)
                   = Available(objs[lim[r]].limiter, t)
              /\ reserveN(objs'[lim[r]].limiter, t).ok
                   = reserveN(objs[lim[r]].limiter, t).ok]_vars

\* a client was denied twice in a row
DeniedConsumesNothingWitness ==
  \E c \in Clients, r \in Reqs :
    /\ pc[r] = "done" /\ cid[r] = c /\ res[r] = Returned(FALSE)
    /\ Present(c)
    /\ hist[c].gcalls >= hist[c].gadm + 2

\* C18 as claimed (refill timestamp on every check): once allow has answered
\* a request, admitted or denied, the last refill time of the client's
\* limiter is the time of that call.
RefillTimestampEveryCheck ==
  \A r \in Reqs :
    pc[r] = "done" =>
      /\ Present(cid[r])
      /\ Entry(cid[r]).limiter.last = rtime[r]

\* C18 as amended: the last refill time of a limiter is the time of the last
\* call allow admitted for the client and its stored tokens are what that
\* call left; a denied call changes neither.  Elapsed time is never credited
\* twice: the tokens the limiter can hand out now are min(BurstSize, what the
\* last admission left + RequestsPerSecond * the time since), however many
\* calls were denied meanwhile.
RefillTimestamp ==
  \A c \in Clients :
    Present(c) =>
      /\ Entry(c).limiter.last = hist[c].atime
      /\ Entry(c).limiter.tokens = hist[c].atok
      /\ Available(Entry(c).limiter, now)
           = Min(Burst, hist[c].atok
                        + config.RequestsPerSecond * (now - hist[c].atime))

\* a client was admitted, then denied at two later times
RefillTimestampWitness ==
  \E c \in Clients, r \in Reqs :
    /\ Present(c)
    /\ pc[r] = "done" /\ cid[r] = c /\ res[r] = Returned(FALSE)
    /\ hist[c].atime < hist[c].ptime
    /\ hist[c].ptime < rtime[r]
    /\ Entry(c).limiter.last = hist[c].atime

\* C19 (lastSeen tracks every request): every call of allow, admitted or
\* denied, on a new entry or an old one, leaves the lastSeen of the client's
\* entry at the time of the call; and a sweep keeps every entry whose client
\* made its last call at most 2 * CleanupInterval ago, so a client whose
\* calls are never further apart than that is never evicted, admitted or not.
LastSeenTracks ==
  [][/\ \A r \in Reqs :
          (pc[r] = "cs" /\ pc'[r] = "done") =>
            /\ clients'[cid[r]] # NoObj
            /\ objs'[clients'[cid[r]]].lastSeen = now
     /\ Sweeps =>
          \A c \in Clients :
            (Present(c) /\ now - hist[c].gtime <= 2 * config.CleanupInterval)
              => clients'[c] = clients[c]]_vars

\* a sweep has kept an entry whose last admission is older than the cutoff:
\* a denied call made since keeps it
LastSeenTracksWitness ==
  \E c \in Clients :
    /\ jpc = "unlock" /\ c \notin swept
    /\ Present(c)
    /\ hist[c].gadm = 0 /\ hist[c].gcalls >= 1
    /\ Entry(c).limiter.last < cutoff(now)
    /\ Entry(c).lastSeen >= cutoff(now)

\* C20 (eviction hysteresis): a sweep keeps every entry idle for at most one
\* CleanupInterval and every entry idle for more than one and less than two;
\* when the sweeps come one CleanupInterval apart, an entry that was idle for
\* more than one and less than two CleanupIntervals at a sweep and has stayed
\* silent since is removed by the next; and whatever step removes an entry,
\* the entry was idle for more than one CleanupInterval.
EvictionHysteresis ==
  [][\A c \in Clients :
       Present(c) =>
         LET idle == now - Entry(c).lastSeen
             before == sweepLog.at - Entry(c).lastSeen
         IN  /\ (Sweeps /\ idle <= 2 * config.CleanupInterval)
                  => clients'[c] = clients[c]
             /\ (/\ Sweeps
                 /\ sweepLog.at # ZeroTime
                 /\ now - sweepLog.at = config.CleanupInterval
                 /\ config.CleanupInterval < before
                 /\ before < 2 * config.CleanupInterval)
                  => clients'[c] = NoObj
             /\ clients'[c] = NoObj => idle > config.CleanupInterval]_vars

\* two sweeps one CleanupInterval apart: the first kept an entry idle for
\* more than one and less than two CleanupIntervals, the second has removed it
EvictionHysteresisWitness ==
  \E c \in swept :
    /\ jpc = "unlock"
    /\ sweepLog.prev # ZeroTime
    /\ sweepLog.at - sweepLog.prev = config.CleanupInterval
    /\ config.CleanupInterval < sweepLog.prev - sweepLog.seen[c]
    /\ sweepLog.prev - sweepLog.seen[c] < 2 * config.CleanupInterval

\* the limiter allow works on in its critical section: the one of the entry
\* found, or the one it makes
Found(r) ==
  IF exists[r] THEN objs[lim[r]].limiter
  ELSE NewLimiter(config.RequestsPerSecond, config.BurstSize)

\* C21 (inclusive boundary): a call that finds the refilled tokens of its
\* client at exactly one token returns true and leaves the tokens at zero;
\* a call that returns false found less than one token.
InclusiveBoundary ==
  [][\A r \in Reqs :
       (pc[r] = "cs" /\ pc'[r] = "done") =>
         LET refilled == advance(Found(r), now)
         IN  /\ refilled = TicksPerSecond =>
                  /\ res'[r] = Returned(TRUE)
                  /\ objs'[clients'[cid[r]]].limiter.tokens = 0
             /\ res'[r] = Returned(FALSE) => refilled < TicksPerSecond]_vars

\* a client whose bucket was left short of a token has waited until exactly
\* one token was refilled and was admitted with none left
InclusiveBoundaryWitness ==
  \E c \in Clients, r \in Reqs :
    /\ Present(c) /\ ~hist[c].fresh
    /\ pc[r] = "done" /\ cid[r] = c /\ res[r] = Returned(TRUE)
    /\ hist[c].ptok < TicksPerSecond
    /\ hist[c].ptok + config.RequestsPerSecond * (rtime[r] - hist[c].ptime)
         = TicksPerSecond
    /\ hist[c].gcalls = 1 /\ hist[c].gtime = rtime[r]
    /\ Entry(c).limiter.tokens = 0
    /\ Entry(c).limiter.last = rtime[r]
\* C22 as claimed (a rate that is not positive): with RequestsPerSecond <= 0
\* the calls admitted for the entry of a client are its first BurstSize ones,
\* all the later ones being denied.
NonPositiveRate ==
  \A c \in Clients :
    Present(c) =>
      tally.admitted[c] = Min(tally.calls[c], config.BurstSize)

\* C22 as amended: with RequestsPerSecond = 0 the calls admitted for the
\* entry of a client are its first BurstSize ones and all the later ones are
\* denied; with RequestsPerSecond < 0 no call is admitted, the first ones
\* included; in both cases the limiter of the entry is never refilled.
DegenerateRate ==
  \A c \in Clients :
    Present(c) =>
      /\ config.RequestsPerSecond = 0 =>
           /\ tally.admitted[c] = Min(tally.calls[c], config.BurstSize)
           /\ Entry(c).limiter.burst = config.BurstSize - tally.admitted[c]
      /\ config.RequestsPerSecond < 0 =>
           /\ tally.admitted[c] = 0
           /\ Entry(c).limiter.burst = config.BurstSize
      /\ Entry(c).limiter.tokens = 0
      /\ Entry(c).limiter.last = ZeroTime

\* with a rate of zero a client was admitted BurstSize times and then denied
\* at a later time
DegenerateRateWitness ==
  \E c \in Clients, r \in Reqs :
    /\ config.RequestsPerSecond = 0
    /\ Present(c)
    /\ tally.calls[c] = config.BurstSize + 1
    /\ tally.admitted[c] = config.BurstSize
    /\ pc[r] = "done" /\ cid[r] = c /\ res[r] = Returned(FALSE)
    /\ tally.adm[c][config.BurstSize] < rtime[r]
\* C23 (policy validation at construction): whatever the policy
\* NewRateLimiter was given, nothing faults later: the cleanup goroutine
\* does not panic and the process is not brought down.
PolicyValidation == jpc # "panic" /\ server # "crashed"
\* C24 (sustained-rate bound): of the admissions of a client, those that
\* fall in a window of T seconds are at most BurstSize + RequestsPerSecond * T,
\* whatever sweeps came between them: any run of admissions from the i-th
\* to the j-th fits the bound of the window they span.
SustainedRate ==
  \A c \in Clients :
    \A i, j \in 1..Len(tally.adm[c]) :
      i <= j =>
        (j - i + 1) * TicksPerSecond
          <= Burst + config.RequestsPerSecond * (tally.adm[c][j] - tally.adm[c][i])
\* client c has an entry and the clock can pass its last request by more
\* than 2 * CleanupInterval
Silent(c) ==
  Present(c) /\ Entry(c).lastSeen + 2 * config.CleanupInterval < MaxTime

\* the last sweep came more than 2 * CleanupInterval after the last request
\* of client c and its entry is there
Overdue(c) ==
  Present(c) /\ sweepLog.at - Entry(c).lastSeen > 2 * config.CleanupInterval

\* C25 (the registry drains when the traffic stops): a tick of the ticker is
\* followed by a sweep; an entry whose client stays silent does not stay: as
\* long as the clock can pass its last request by more than
\* 2 * CleanupInterval, the entry is removed or the client has made a later
\* request; and a sweep leaves no entry whose last request is more than
\* 2 * CleanupInterval before the time of the sweep.
RegistryDrains ==
  /\ tick ~> (jpc = "unlock")
  /\ \A c \in Clients : Silent(c) ~> ~Silent(c)
  /\ [](jpc = "unlock" => \A c \in Clients : ~Overdue(c))

\* the clients have stopped calling and a sweep has emptied the map
RegistryDrainsWitness ==
  /\ jpc = "unlock" /\ swept # {}
  /\ \A r \in Reqs : pc[r] = "idle"
  /\ \A c \in Clients : ~Present(c)
\* C26 (sweep frame): a sweep leaves the policy as it is, adds no key,
\* removes only keys whose entry was last seen before the cutoff, and leaves
\* every entry it keeps under the same key with the same tokens, refill
\* timestamp and lastSeen; the requests in flight are not touched.
SweepFrame ==
  [][Sweeps =>
       /\ config' = config
       /\ \A c \in Clients :
            /\ ~Present(c) => clients'[c] = NoObj
            /\ (Present(c) /\ clients'[c] = NoObj) =>
                 Entry(c).lastSeen < now - 2 * config.CleanupInterval
            /\ (Present(c) /\ clients'[c] # NoObj) =>
                 /\ clients'[c] = clients[c]
                 /\ objs'[clients'[c]].limiter.tokens = Entry(c).limiter.tokens
                 /\ objs'[clients'[c]].limiter.last = Entry(c).limiter.last
                 /\ objs'[clients'[c]].lastSeen = Entry(c).lastSeen
                 /\ objs'[clients'[c]] = Entry(c)
       /\ <<pc, cid, lim, exists, res, http, mu, now>>'
            = <<pc, cid, lim, exists, res, http, mu, now>>]_vars

\* a sweep has removed one entry and kept another, whose bucket is neither
\* full nor empty
SweepFrameWitness ==
  \E a, b \in Clients :
    /\ jpc = "unlock"
    /\ a \in swept /\ ~Present(a)
    /\ b \notin swept /\ Present(b)
    /\ Entry(b).limiter.tokens > 0
    /\ Entry(b).limiter.tokens < Burst

\* the request of goroutine r is a preflight request
Preflight(r) == http[r].method = "OPTIONS"

\* C27 (preflight requests bypass the limiter): an OPTIONS request is
\* answered 204 by CORS and is over without having reached the rate limiter:
\* allow returned nothing to it and its status is not 429; the step that
\* serves it changes neither the registry, nor an entry (its tokens, its
\* lastSeen), nor what the clients were counted.
PreflightBypass ==
  [][\A r \in Reqs :
       /\ Preflight(r)' =>
            /\ pc'[r] = "done"
            /\ http'[r].status = 204 /\ http'[r].aborted
            /\ res'[r] = NoResult
            /\ \A i \in 1..Len(http'[r].ran) : http'[r].ran[i] # "RateLimit"
       /\ (~Preflight(r) /\ Preflight(r)') =>
            /\ clients' = clients /\ objs' = objs /\ hist' = hist
            /\ mu' = mu /\ lim' = lim]_vars

\* a preflight request was answered 204 while the entry of its client had
\* less than one token, so that the limiter would have denied the request
PreflightBypassWitness ==
  \E r \in Reqs :
    /\ Preflight(r) /\ pc[r] = "done" /\ http[r].status = 204
    /\ Present(http[r].peer)
    /\ advance(Entry(http[r].peer).limiter, now) < TicksPerSecond
    /\ Entry(http[r].peer).lastSeen < now

\* the handlers C28 names, in the order it names them, the rate limiter last
Named ==
  <<"Recovery", "SecureHeaders", "CORS", "CorrelationID", "RequestLogger",
    "RateLimit">>

\* what C28 says of the request of goroutine r: the handlers named ran in
\* their order before the handlers of the route, and a 429 carries the
\* security headers and X-Correlation-ID, is logged by RequestLogger with its
\* status, and had no handler of the route run
Ordered(r) ==
  /\ Len(http[r].ran) >= Len(Named)
  /\ SubSeq(http[r].ran, 1, Len(Named)) = Named
  /\ http[r].handled => http[r].ran = Append(Named, "handlers")
  /\ res[r] = Returned(FALSE) => http[r].status = 429
  /\ http[r].status = 429 =>
       /\ SecurityHeaders \cup {"X-Correlation-ID"} \subseteq http[r].sent
       /\ http[r].access = <<"warn", 429>>
       /\ ~http[r].handled
       /\ http[r].ran = Named

\* C28 as claimed (middleware ordering around denial): every request that is
\* not an OPTIONS request runs Recovery, SecureHeaders, CORS, CorrelationID,
\* RequestLogger and then the rate limiter, before the handlers of the route.
MiddlewareOrdering ==
  \A r \in Reqs :
    (http[r].method # "" /\ ~Preflight(r)) => Ordered(r)

\* C28, amended: every request that is not an OPTIONS request and that the
\* router hands to a chain (it matches a route, or no route at all) runs
\* the handlers named, in their order, before the handlers of the route, and
\* every 429 carries the security headers and X-Correlation-ID, is logged by
\* RequestLogger at level warn with status 429, and had no handler of the
\* route run; a request the router answers with a trailing-slash redirection
\* runs no handler at all: it is not limited, not logged and never gets 429.
MiddlewareOrderingOfChains ==
  \A r \in Reqs :
    (http[r].method # "" /\ ~Preflight(r)) =>
      IF Redirects(http[r])
      THEN /\ http[r].ran = <<>> /\ http[r].access = <<>>
           /\ http[r].status \in {301, 307}
           /\ pc[r] = "done" /\ res[r] = NoResult
      ELSE Ordered(r)

\* a PUT request that matches no route was denied and is over, and another
\* request was redirected
MiddlewareOrderingWitness ==
  \E r, q \in Reqs :
    /\ pc[r] = "done" /\ res[r] = Returned(FALSE) /\ http[r].status = 429
    /\ http[r].method = "PUT" /\ http[r].path = "none"
    /\ pc[q] = "done" /\ Redirects(http[q])

====
